---- MODULE Spec2Model ----
(***************************************************************************)
(* DefaultPagesStorage (crates/svm-storage/src/default/pages_storage.rs):  *)
(* a write buffer between a tenant's page address space and a shared       *)
(* key-value store.  Several storage instances share one store; each owns  *)
(* its address and its map of uncommitted pages.                           *)
(***************************************************************************)
EXTENDS Integers, Sequences, FiniteSets, TLC

\* ------------------------------------------------------------------ bounds
NumInst == 2
NumAddr == 2
MaxPage == 1
MaxData == 2

Inst    == 1..NumInst
Address == 1..NumAddr
Pages   == 0..MaxPage
Data    == 1..MaxData

\* Option<Vec<u8>>
None    == << >>
Some(d) == << d >>

\* ------------------------------------------------- collaborators (traits)
\* PageIndexHasher::hash: deterministic and injective on (address, page).
hash(a, page_idx) == a * (MaxPage + 1) + page_idx

Keys == { hash(a, p) : a \in Address, p \in Pages }

\* KVStore::get: point lookup, absent for a key never stored.
get(s, k) == IF k \in DOMAIN s THEN Some(s[k]) ELSE None

\* One (key, value) pair put into a map (HashMap::insert, and one pair of a batch).
insert(m, k, v) == [x \in (DOMAIN m) \cup {k} |-> IF x = k THEN v ELSE m[x]]

\* KVStore::store: writes all pairs of the batch, in the batch's order.
RECURSIVE store(_, _)
store(s, batch) ==
    IF batch = << >> THEN s
    ELSE store(insert(s, Head(batch)[1], Head(batch)[2]), Tail(batch))

\* KVStore::store failing: it returns, with no pair written.
store_failed(s, batch) == s

\* HashMap::new()
EmptyMap == [x \in {} |-> 0]

\* ------------------------------------------------------------------ state
VARIABLES
    addr,         \* addr[i]: the address instance i was constructed with
    kv,           \* the shared key-value store: key -> payload
    uncommitted,  \* uncommitted[i]: instance i's pending changes: key -> payload
    lastOp,       \* the last call made, with what it returned
    focus,        \* the (instance, page) whose writes are followed: any page of the
                  \* first instance (instances are interchangeable, every
                  \* instance is constructed with every address)
    track,        \* what became of the last write of focus
    borrow,       \* the RefCell's borrow flag of kv: 0 unborrowed, n > 0 shared
                  \* borrows, -1 one exclusive borrow
    since         \* since[i][p]: the last payload instance i wrote to page p since
                  \* its construction or its last commit or clear, if any

vars == << addr, kv, uncommitted, lastOp, focus, track, borrow, since >>

\* ---------------------------------------------------- DefaultPagesStorage
\* DefaultPagesStorage::new
new(a) == [addr |-> a, uncommitted |-> EmptyMap]

\* A deriver call that drops the tenant: every instance hashes under one address.
compute_page_hash_noaddr(i, page_idx) == hash(1, page_idx)

\* A deriver call keyed by the instance instead of its address.
compute_page_hash_inst(i, page_idx) == hash(i, page_idx)

\* compute_page_hash: PH::hash(self.addr, page_idx)
compute_page_hash(i, page_idx) == hash(addr[i], page_idx)

\* A read that looks into the pending changes first (read-your-writes).
read_page_buffered(i, page_idx) ==
    LET ph == compute_page_hash(i, page_idx)
    IN  IF ph \in DOMAIN uncommitted[i] THEN Some(uncommitted[i][ph]) ELSE get(kv, ph)

\* read_page's return value: self.kv.borrow().get(&ph)
read_page(i, page_idx) == get(kv, compute_page_hash(i, page_idx))

\* A write that keeps an existing entry (entry().or_insert instead of insert).
write_page_keep(i, page_idx, data) ==
    LET ph == compute_page_hash(i, page_idx)
    IN  IF ph \in DOMAIN uncommitted[i] THEN uncommitted[i]
        ELSE insert(uncommitted[i], ph, data)

\* A write that replaces the whole map by the one new entry.
write_page_replace(i, page_idx, data) ==
    insert(EmptyMap, compute_page_hash(i, page_idx), data)

\* write_page: self.uncommitted.insert(ph.to_vec(), data.to_vec())
write_page(i, page_idx, data) ==
    insert(uncommitted[i], compute_page_hash(i, page_idx), data)

\* A clear that forgets to empty the map.
clear_noop(i) == uncommitted[i]

\* A clear that removes one entry only (the smallest key).
clear_one(i) ==
    LET m == uncommitted[i]
    IN  IF DOMAIN m = {} THEN m
        ELSE LET k == CHOOSE x \in DOMAIN m : \A y \in DOMAIN m : x <= y
             IN  [x \in (DOMAIN m) \ {k} |-> m[x]]

\* clear: self.uncommitted.clear()
clear(i) == EmptyMap

\* A snapshot taken after the map was emptied: nothing to store.
changes_empty(i) == { << >> }

\* A snapshot that holds one pair at most.
changes_one(i) ==
    LET m == uncommitted[i]
    IN  IF DOMAIN m = {} THEN { << >> }
        ELSE { << << k, m[k] >> >> : k \in DOMAIN m }

\* Every sequence that lists each element of the set P once.
Orders(P) ==
    LET n == Cardinality(P)
    IN  { f \in [1..n -> P] : \A x, y \in 1..n : x # y => f[x] # f[y] }

\* A snapshot of a map shared by all instances: everybody's pending pairs.
changes_all(i) ==
    Orders({ << k, uncommitted[j][k] >> : << j, k >> \in
                { jk \in Inst \X Keys : jk[2] \in DOMAIN uncommitted[jk[1]] } })

\* A snapshot that lists every pair, then every key again with the payload of the
\* map's largest key (keys and payloads collected apart, zipped wrongly).
changes_dup(i) ==
    LET m == uncommitted[i]
    IN  IF DOMAIN m = {} THEN { << >> }
        ELSE LET top == CHOOSE x \in DOMAIN m : \A y \in DOMAIN m : y <= x
             IN  { o \o [x \in DOMAIN o |-> << o[x][1], m[top] >>] :
                     o \in Orders({ << k, m[k] >> : k \in DOMAIN m }) }

\* commit's `changes`: the pairs of self.uncommitted, collected in the map's
\* iteration order, which is any order of its keys.
changes(i) ==
    LET m == uncommitted[i]
        n == Cardinality(DOMAIN m)
    IN  { [x \in 1..n |-> << o[x], m[o[x]] >>] :
            o \in { f \in [1..n -> DOMAIN m] :
                      \A x, y \in 1..n : x # y => f[x] # f[y] } }

\* RefCell::borrow / borrow_mut: whether the flag admits the borrow (a refused
\* borrow panics), and the flag with the borrow taken.
can_borrow(b)     == b >= 0
can_borrow_mut(b) == b = 0
kv_borrow(b)      == b + 1
kv_borrow_mut(b)  == -1

\* A read that keeps its shared borrow alive after it returned.
read_drop_leak(b) == b

\* read_page: the Ref of self.kv.borrow() is a temporary, dropped when the
\* statement ends.
read_drop(b) == b - 1

\* commit: the RefMut of self.kv.borrow_mut() is a temporary, dropped when the
\* statement ends.
commit_drop(b) == b + 1

\* A store call that replaces the store's content by the batch.
commit_store_replace(batch) == store(EmptyMap, batch)

\* commit's store call: self.kv.borrow_mut().store(changes.as_slice())
commit_store(batch) == store(kv, batch)

\* A commit that returns without clearing.
commit_clear_skip(i) == uncommitted[i]

\* commit's last statement: self.clear()
commit_clear(i) == clear(i)

\* A commit that skips the store call when there is nothing to store.
commit_calls_skip_empty(i, batch) ==
    IF batch = << >> THEN << "clear" >> ELSE << "store", "clear" >>

\* commit's calls after the snapshot, in program order: one store call with the
\* batch, then clear.
commit_calls(i, batch) == << "store", "clear" >>

\* How many store calls a sequence of calls makes.
Stores(calls) == Cardinality({ x \in DOMAIN calls : calls[x] = "store" })

\* ------------------------------------------------------ call bookkeeping
\* stores: the store calls the call made.  commit returns (), whether its store
\* call took effect or not.
NoOp == [op |-> "new", inst |-> 0, page |-> 0, data |-> 0, ret |-> None,
         stores |-> 0]
Call(o, i, p, d, r) == [op |-> o, inst |-> i, page |-> p, data |-> d, ret |-> r,
                        stores |-> 0]

\* What became of the last write(p, d) of focus: st is "pending" after the write,
\* "committed" after a commit of it, "cleared" after a clear of it; old is the
\* store's value for the page's key when the write was made; over says that the
\* write replaced a pending write of another payload.  "none": never written, or
\* another instance has stored to the same key while the write was pending or
\* cleared; "overwritten": another instance has stored to the same key after the
\* commit; "lost": the commit's store call failed.
Untracked == [st |-> "none", d |-> 0, old |-> None, over |-> FALSE]

\* ---------------------------------------------------------------- actions
Init ==
    /\ \E as \in [Inst -> Address] :
         /\ addr = [i \in Inst |-> new(as[i]).addr]
         /\ uncommitted = [i \in Inst |-> new(as[i]).uncommitted]
    /\ kv = EmptyMap
    /\ lastOp = NoOp
    /\ focus \in { f \in Inst \X Pages : f[1] = 1 }
    /\ track = Untracked
    /\ borrow = 0
    /\ since = [i \in Inst |-> [p \in Pages |-> None]]

\* A call that panics on a refused borrow: nothing is changed.
Panic(i) ==
    /\ lastOp' = Call("panic", i, 0, 0, None)
    /\ UNCHANGED << addr, kv, uncommitted, focus, track, borrow, since >>

Read(i, p) ==
    IF can_borrow(borrow)
    THEN /\ lastOp' = Call("read", i, p, 0, read_page(i, p))
         /\ borrow' = read_drop(kv_borrow(borrow))
         /\ UNCHANGED << addr, kv, uncommitted, focus, track, since >>
    ELSE Panic(i)

Write(i, p, d) ==
    /\ uncommitted' = [uncommitted EXCEPT ![i] = write_page(i, p, d)]
    /\ lastOp' = Call("write", i, p, d, None)
    /\ track' = IF << i, p >> = focus
                THEN [st |-> "pending", d |-> d, old |-> get(kv, hash(addr[i], p)),
                      over |-> /\ track.st = "pending"
                               /\ track.over \/ track.d # d]
                ELSE track
    /\ since' = [since EXCEPT ![i][p] = Some(d)]
    /\ UNCHANGED << addr, kv, focus, borrow >>

Clear(i) ==
    /\ uncommitted' = [uncommitted EXCEPT ![i] = clear(i)]
    /\ lastOp' = Call("clear", i, 0, 0, None)
    /\ track' = IF i = focus[1] /\ track.st = "pending"
                THEN [track EXCEPT !.st = "cleared", !.d = 0, !.over = FALSE]
                ELSE track
    /\ since' = [since EXCEPT ![i] = [p \in Pages |-> None]]
    /\ UNCHANGED << addr, kv, focus, borrow >>

\* The keys a batch writes.
BatchKeys(batch) == { batch[x][1] : x \in DOMAIN batch }

\* commit, with a store call that takes effect (ok) or fails.
CommitWith(i, ok) ==
    \E batch \in changes(i) :
        LET calls  == commit_calls(i, batch)
            stored == "store" \in { calls[x] : x \in DOMAIN calls }
        IN  IF stored /\ ~ can_borrow_mut(borrow)
            THEN Panic(i)
            ELSE /\ kv' = IF ~ stored THEN kv
                          ELSE IF ok THEN commit_store(batch)
                          ELSE store_failed(kv, batch)
                 /\ borrow' = IF stored THEN commit_drop(kv_borrow_mut(borrow))
                              ELSE borrow
                 /\ uncommitted' = [uncommitted EXCEPT ![i] = commit_clear(i)]
                 /\ lastOp' = [Call("commit", i, 0, 0, None) EXCEPT
                                  !.stores = Stores(calls)]
                 /\ track' = IF i = focus[1]
                             THEN IF track.st = "pending"
                                  THEN [track EXCEPT
                                           !.st = IF ok THEN "committed" ELSE "lost",
                                           !.old = None]
                                  ELSE track
                             ELSE IF ok /\ hash(addr[focus[1]], focus[2]) \in BatchKeys(batch)
                                  THEN IF track.st = "committed"
                                       THEN [track EXCEPT !.st = "overwritten",
                                                          !.over = FALSE]
                                       ELSE Untracked
                                  ELSE track
                 /\ since' = [since EXCEPT ![i] = [p \in Pages |-> None]]
                 /\ UNCHANGED << addr, focus >>

Commit(i) == CommitWith(i, TRUE)

\* commit while the store's batch write fails.
CommitFail(i) == CommitWith(i, FALSE)

Next ==
    \/ \E i \in Inst, p \in Pages : Read(i, p)
    \/ \E i \in Inst, p \in Pages, d \in Data : Write(i, p, d)
    \/ \E i \in Inst : Clear(i)
    \/ \E i \in Inst : Commit(i)

Spec == Init /\ [][Next]_vars

\* The same storage over a store whose batch write may fail.
NextFaulty ==
    \/ Next
    \/ \E i \in Inst : CommitFail(i)

\* The followed page is the first one here (pages are interchangeable).
InitFaulty == Init /\ focus[2] = 0

SpecFaulty == InitFaulty /\ [][NextFaulty]_vars

\* ----------------------------------------------------------- properties
fi == focus[1]
fp == focus[2]
fkey == hash(addr[fi], fp)

IsRead(i, p) == lastOp.op = "read" /\ lastOp.inst = i /\ lastOp.page = p
IsCall(o, i) == lastOp.op = o /\ lastOp.inst = i
Clean(i) == uncommitted[i] = EmptyMap
Dirty(i) == uncommitted[i] # EmptyMap

\* C1 (commit durability, P2): a read(p) of an instance whose last write to p was
\* write(p, d), committed since by that instance, returns exactly d.
C1_CommitDurability ==
    (IsRead(fi, fp) /\ track.st = "committed") => lastOp.ret = Some(track.d)

\* A read of a committed write has returned its payload, with another page in the
\* store and a new write to that other page pending.
C1_Witness ==
    /\ IsRead(fi, fp)
    /\ track.st = "committed"
    /\ lastOp.ret = Some(track.d)
    /\ Cardinality(DOMAIN kv) > 1
    /\ Dirty(fi)

\* C2 (buffer isolation, P1/I5): a read(p) made while a write(p, d) of the same
\* instance is pending returns what the store held for p's key before the write
\* (absent if the page was never committed), whatever d is.
C2_BufferIsolation ==
    (IsRead(fi, fp) /\ track.st = "pending")
        => lastOp.ret = track.old

\* A read under a pending write of another payload than the committed one.
C2_Witness ==
    /\ IsRead(fi, fp)
    /\ track.st = "pending"
    /\ track.old # None
    /\ track.old # Some(track.d)
    /\ get(uncommitted[fi], fkey) = Some(track.d)
    /\ lastOp.ret = track.old

\* C3 (rollback, P3): once write(p, d) was cleared, the store holds for p's key what
\* it held before the write, read(p) returns it, and this stays so through later
\* commits of the instance (d is never persisted).
C3_Rollback ==
    track.st = "cleared"
        => /\ get(kv, fkey) = track.old
           /\ IsRead(fi, fp) => lastOp.ret = track.old

\* After write(p, d) on a page never committed, clear() and a later commit() that
\* stored another page, read(p) has returned absent.
C3_Witness ==
    /\ IsRead(fi, fp)
    /\ track.st = "cleared"
    /\ track.old = None
    /\ lastOp.ret = None
    /\ \E q \in Pages \ {fp} : hash(addr[fi], q) \in DOMAIN kv

\* C4 (commit is all-and-only, I4): a commit() of instance i leaves every key of
\* its pending buffer with the buffered payload, every other key of the store as
\* it was, and the buffer empty.
C4_CommitAllAndOnly ==
    [][ lastOp'.op = "commit" =>
          LET i == lastOp'.inst
          IN  /\ \A k \in Keys :
                    get(kv', k) = IF k \in DOMAIN uncommitted[i]
                                  THEN Some(uncommitted[i][k])
                                  ELSE get(kv, k)
              /\ DOMAIN kv' \subseteq Keys
              /\ uncommitted'[i] = EmptyMap ]_vars

\* A commit has stored its pages next to a key it left alone, while another
\* instance still has pending changes.
C4_Witness ==
    /\ IsCall("commit", fi)
    /\ track.st = "committed"
    /\ kv[fkey] = track.d
    /\ \E k \in DOMAIN kv : \A p \in Pages : k # hash(addr[fi], p)
    /\ \E j \in Inst \ {fi} : Dirty(j)

\* C5 (namespacing, P5): for instances a, b of distinct addresses, no write, clear
\* or commit of a changes what read(p) returns under b, for any page p.
C5_Namespacing ==
    [][ \A a, b \in Inst :
          ( /\ addr[a] # addr[b]
            /\ lastOp'.inst = a
            /\ lastOp'.op \in {"write", "clear", "commit"} )
          => \A p \in Pages :
                get(kv', compute_page_hash(b, p)) = get(kv, compute_page_hash(b, p)) ]_vars

\* Tenant a has committed page p, which tenant b reads as absent.
C5_Witness ==
    \E b \in Inst :
        /\ addr[fi] # addr[b]
        /\ IsCall("commit", fi)
        /\ track.st = "committed"
        /\ read_page(fi, fp) = Some(track.d)
        /\ read_page(b, fp) = None

\* C6 (last write wins, P6): when write(p, d2) replaced a pending write(p, d1), the
\* buffer holds the one payload d2 for p's key, and after commit() read(p)
\* returns d2.
C6_LastWriteWins ==
    track.over =>
        /\ track.st = "pending" => get(uncommitted[fi], fkey) = Some(track.d)
        /\ track.st = "committed" /\ IsCall("commit", fi)
             => get(kv, fkey) = Some(track.d)
        /\ track.st = "committed" /\ IsRead(fi, fp) => lastOp.ret = Some(track.d)

\* write(p, d1), write(p, d2) with d1 # d2, commit(), and read(p) has returned d2.
C6_Witness ==
    /\ track.over
    /\ track.st = "committed"
    /\ IsRead(fi, fp)
    /\ lastOp.ret = Some(track.d)

\* C7 (commit idempotence, P4): a commit() on an empty buffer, and so a commit()
\* that directly follows a commit() of the same instance, changes neither the
\* store nor any buffer; the buffer stays empty.
C7_CommitIdempotent ==
    [][ lastOp'.op = "commit" =>
          LET i == lastOp'.inst
          IN  /\ Clean(i) => kv' = kv /\ uncommitted' = uncommitted
              /\ (lastOp.op = "commit" /\ lastOp.inst = i)
                    => /\ kv' = kv
                       /\ uncommitted' = uncommitted
                       /\ uncommitted'[i] = EmptyMap ]_vars

\* A commit on an empty buffer over a store that holds pages: the instance has
\* written nothing, and its last call was a commit.
C7_Witness ==
    /\ IsCall("commit", fi)
    /\ track.st = "none"
    /\ \A j \in Inst \ {fi} : addr[j] # addr[fi]
    /\ \A p \in Pages : hash(addr[fi], p) \notin DOMAIN kv
    /\ kv # EmptyMap
    /\ Clean(fi)

\* C8 (clear is idempotent): a clear() leaves the instance's buffer empty, the store
\* and the other buffers unchanged; on an empty buffer it changes nothing.
C8_ClearIdempotent ==
    [][ lastOp'.op = "clear" =>
          LET i == lastOp'.inst
          IN  /\ uncommitted'[i] = EmptyMap
              /\ kv' = kv
              /\ \A j \in Inst \ {i} : uncommitted'[j] = uncommitted[j]
              /\ Clean(i) => uncommitted' = uncommitted ]_vars

\* A clear has discarded a pending write over a store that holds pages.
C8_Witness ==
    /\ IsCall("clear", fi)
    /\ track.st = "cleared"
    /\ kv # EmptyMap
    /\ Clean(fi)

\* C9 (buffer state machine): every instance starts Clean; a write leads to Dirty,
\* a commit and a clear lead to Clean, a read keeps the state; an operation of one
\* instance keeps the state of every other.
C9_StateMachine ==
    /\ \A i \in Inst : Clean(i)
    /\ [][ LET i == lastOp'.inst
           IN  /\ lastOp'.op = "write" => uncommitted'[i] # EmptyMap
               /\ lastOp'.op \in {"commit", "clear"} => uncommitted'[i] = EmptyMap
               /\ lastOp'.op = "read" => \A j \in Inst : Clean(j)' <=> Clean(j)
               /\ \A j \in Inst \ {i} : Clean(j)' <=> Clean(j) ]_vars

\* A commit has taken an instance from Dirty to Clean while another is Dirty.
C9_Witness ==
    /\ IsCall("commit", fi)
    /\ track.st = "committed"
    /\ Clean(fi)
    /\ \E j \in Inst \ {fi} : Dirty(j)

\* C10 (write performs no I/O): a write(p, d) leaves the store unchanged, sets the
\* buffer's entry for the key of (tenant, p) to d and leaves every other entry,
\* and every other buffer, unchanged.
C10_WriteFrame ==
    [][ lastOp'.op = "write" =>
          LET i  == lastOp'.inst
              ph == hash(addr[i], lastOp'.page)
          IN  /\ kv' = kv
              /\ DOMAIN uncommitted'[i] = (DOMAIN uncommitted[i]) \cup {ph}
              /\ uncommitted'[i][ph] = lastOp'.data
              /\ \A k \in (DOMAIN uncommitted[i]) \ {ph} :
                    uncommitted'[i][k] = uncommitted[i][k]
              /\ \A j \in Inst \ {i} : uncommitted'[j] = uncommitted[j] ]_vars

\* A write has added a second entry to a buffer, over a store that holds pages.
C10_Witness ==
    /\ IsCall("write", fi)
    /\ lastOp.page = fp
    /\ track.st = "pending"
    /\ Cardinality(DOMAIN uncommitted[fi]) = 2
    /\ kv # EmptyMap

\* C11 (read is a pure pass-through): a read(p) returns the store's lookup result
\* for the key of (tenant, p), absent for a page never committed, and changes
\* neither the store nor any pending buffer.
C11_ReadPassThrough ==
    [][ lastOp'.op = "read" =>
          /\ lastOp'.ret = get(kv, hash(addr[lastOp'.inst], lastOp'.page))
          /\ lastOp'.ret = get(kv', hash(addr[lastOp'.inst], lastOp'.page))
          /\ kv' = kv
          /\ uncommitted' = uncommitted ]_vars

\* An instance with a pending write to a page never committed has read the page as
\* absent, over a store that holds other pages.
C11_Witness ==
    \E j \in Inst \ {fi}, p \in Pages :
        /\ IsRead(j, p)
        /\ since[j][p] # None
        /\ lastOp.ret = None
        /\ kv # EmptyMap

\* C12 (buffer content, I3): the pending buffer of an instance holds exactly the
\* keys of the pages it wrote since its construction or its last commit or clear,
\* each with the last payload written; nothing older remains.
C12_BufferContent ==
    \A i \in Inst :
        /\ DOMAIN uncommitted[i] = { hash(addr[i], p) : p \in { q \in Pages : since[i][q] # None } }
        /\ \A p \in Pages : get(uncommitted[i], hash(addr[i], p)) = since[i][p]

\* After a commit of both pages, one page was written again: the buffer holds that
\* page only.
C12_Witness ==
    /\ IsCall("write", fi)
    /\ \A p \in Pages : hash(addr[fi], p) \in DOMAIN kv
    /\ \A j \in Inst \ {fi} : addr[j] # addr[fi]
    /\ Cardinality(DOMAIN uncommitted[fi]) = 1
    /\ since[fi][fp] = Some(track.d)
    /\ kv[fkey] # track.d

\* C13 (no cross-instance sharing): a call on instance a changes no other
\* instance's pending buffer, and a commit of a leaves every key that is not in
\* a's own buffer as it was in the store, pending in another buffer or not.
C13_NoSharing ==
    [][ \A a \in Inst :
          lastOp'.inst = a =>
            /\ \A b \in Inst \ {a} : uncommitted'[b] = uncommitted[b]
            /\ lastOp'.op = "commit" =>
                 \A b \in Inst \ {a} :
                    \A k \in (DOMAIN uncommitted[b]) \ (DOMAIN uncommitted[a]) :
                        get(kv', k) = get(kv, k) ]_vars

\* An instance has committed while another instance of the same tenant keeps a
\* pending write that the store does not hold.
C13_Witness ==
    \E b \in Inst \ {fi} :
        /\ addr[b] = addr[fi]
        /\ IsCall("commit", fi)
        /\ track.st = "committed"
        /\ \E k \in DOMAIN uncommitted[b] : get(kv, k) # Some(uncommitted[b][k])

\* C14 (commit protocol): a commit() makes exactly one store call, also on an empty
\* buffer; the batch is a snapshot of the whole pending buffer; the clear comes
\* after the store call.
C14_CommitProtocol ==
    [][ lastOp'.op = "commit" =>
          LET i == lastOp'.inst
          IN  /\ lastOp'.stores = 1
              /\ \E batch \in changes(i) : kv' = store(kv, batch)
              /\ \A batch \in changes(i) :
                    LET calls == commit_calls(i, batch)
                    IN  /\ Len(batch) = Cardinality(DOMAIN uncommitted[i])
                        /\ BatchKeys(batch) = DOMAIN uncommitted[i]
                        /\ \A x \in DOMAIN batch :
                              batch[x][2] = uncommitted[i][batch[x][1]]
                        /\ Stores(calls) = 1
                        /\ \A y \in DOMAIN calls :
                              calls[y] = "clear" =>
                                 \E x \in 1..(y - 1) : calls[x] = "store" ]_vars

\* A commit on a buffer that was never written has made its one store call.
C14_Witness ==
    /\ IsCall("commit", fi)
    /\ lastOp.stores = 1
    /\ track.st = "none"
    /\ \A j \in Inst \ {fi} : addr[j] # addr[fi]
    /\ kv = EmptyMap

\* C15 (unconditional clear on commit): when the store's batch write fails, the
\* commit still empties the buffer, the store is as before, so the pending writes
\* are in neither, and the call returns as a commit that went well does.
C15_UnconditionalClear ==
    [][ (track.st = "pending" /\ track'.st = "lost") =>
          /\ uncommitted'[fi] = EmptyMap
          /\ kv' = kv
          /\ \A k \in DOMAIN uncommitted[fi] :
                /\ k \notin DOMAIN uncommitted'[fi]
                /\ get(kv', k) = get(kv, k)
          /\ lastOp' = [Call("commit", fi, 0, 0, None) EXCEPT !.stores = 1] ]_vars

\* A commit whose store call failed has lost a pending write: the buffer is empty
\* and the store does not hold the payload.
C15_Witness ==
    /\ IsCall("commit", fi)
    /\ track.st = "lost"
    /\ get(kv, fkey) # Some(track.d)
    /\ kv # EmptyMap
    /\ Clean(fi)

\* C16 (borrow discipline): between calls the store handle is unborrowed, and no
\* call has panicked on a refused borrow.
C16_BorrowDiscipline ==
    /\ borrow = 0
    /\ lastOp.op # "panic"

\* Two instances on the shared handle: one has committed, then the other has read
\* what was committed.
C16_Witness ==
    \E j \in Inst \ {fi} :
        /\ addr[j] = addr[fi]
        /\ IsRead(j, fp)
        /\ track.st = "committed"
        /\ lastOp.ret = Some(track.d)
        /\ borrow = 0

\* Every reordering of a batch.
Perms(batch) ==
    { [x \in DOMAIN batch |-> batch[f[x]]] : f \in Orders(DOMAIN batch) }

\* C17 (batch order independence): the batch of a commit() holds each key of the
\* pending buffer exactly once, and storing it in any order gives the same store.
C17_BatchOrder ==
    [][ lastOp'.op = "commit" =>
          LET i == lastOp'.inst
          IN  \A batch \in changes(i) :
                 /\ BatchKeys(batch) = DOMAIN uncommitted[i]
                 /\ Cardinality(BatchKeys(batch)) = Len(batch)
                 /\ \A b \in Perms(batch) : store(kv, b) = kv' ]_vars

\* A commit has stored two pages with different payloads.
C17_Witness ==
    /\ IsCall("commit", fi)
    /\ track.st = "committed"
    /\ \A p \in Pages : hash(addr[fi], p) \in DOMAIN kv
    /\ \E p, q \in Pages : kv[hash(addr[fi], p)] # kv[hash(addr[fi], q)]
    /\ \A j \in Inst \ {fi} : addr[j] # addr[fi]

\* C18 (no deletion): no call removes a key from the store, and a page that read(p)
\* returns a payload for is never absent afterwards.
C18_NoDeletion ==
    [][ /\ DOMAIN kv \subseteq DOMAIN kv'
        /\ \A i \in Inst, p \in Pages :
              read_page(i, p) # None => get(kv', compute_page_hash(i, p)) # None ]_vars

\* After a commit, a further write and its clear, read(p) has still returned the
\* committed payload.
C18_Witness ==
    /\ IsRead(fi, fp)
    /\ track.st = "cleared"
    /\ track.old # None
    /\ lastOp.ret = track.old

\* C19 (same-tenant instances): instances of one address derive the same key for
\* every page; a commit of one is what the other reads, whatever was stored
\* before, so the later commit wins; no call fails.
C19_SameTenant ==
    [][ /\ lastOp'.op # "panic"
        /\ \A i, j \in Inst :
              addr[i] = addr[j] =>
                /\ \A p \in Pages : compute_page_hash(i, p) = compute_page_hash(j, p)
                /\ (lastOp'.op = "commit" /\ lastOp'.inst = i) =>
                     \A p \in Pages :
                        since[i][p] # None =>
                           get(kv', compute_page_hash(j, p)) = since[i][p] ]_vars

\* The first instance committed page p; another instance of the same address then
\* committed another payload for p, and both read that payload.
C19_Witness ==
    \E j \in Inst \ {fi} :
        /\ addr[j] = addr[fi]
        /\ IsCall("commit", j)
        /\ track.st = "overwritten"
        /\ read_page(fi, fp) # Some(track.d)
        /\ read_page(fi, fp) = read_page(j, fp)
        /\ read_page(j, fp) # None

====
